---- MODULE Spec2Model ----
(***************************************************************************)
(* TreeStore (solution.py): an index over a flat list of parent-linked     *)
(* items.  The constructor builds three dictionaries (itemId, parentChild, *)
(* idAllParents); four queries read them.  parentChild and idAllParents    *)
(* are collections.defaultdict(list): reading a missing key inserts it.    *)
(*                                                                         *)
(* Item ids are the integers 1..MaxId.  The parent sentinel "root" of the  *)
(* source is a string, a value no integer id equals; it is written Root    *)
(* here and is the integer 0, which is never an item id.  MaxId + 1 is an  *)
(* id that no item carries (a dangling parent, an unknown query id).       *)
(*                                                                         *)
(* Spec and FairBuild start from the inputs that satisfy the data-model    *)
(* invariants; SpecAny starts from every input sequence and follows the    *)
(* constructor alone.  A walk that does not end is cut off when its        *)
(* ancestor list holds MaxChain items, more than any ending walk can       *)
(* collect.                                                                *)
(***************************************************************************)
EXTENDS Integers, Sequences, FiniteSets, TLC

MaxLen == 3
MaxId == 3
MaxChain == MaxLen + 1

Root == 0
Ids == 1..MaxId
ParentVals == 0..(MaxId + 1)
QueryIds == 0..(MaxId + 1)
\* The extra field of the items of the test data: item 1 has none, the others
\* carry "test" or None.  The code never reads it.
TypeOf(i) == IF i = 1 THEN "absent" ELSE IF i % 2 = 0 THEN "test" ELSE "None"
Items == { [id |-> i, parent |-> p, type |-> TypeOf(i)] : i \in Ids, p \in ParentVals }
NoCall == [op |-> "none", arg |-> Root]
NoRet == [kind |-> "none", val |-> Root]

VARIABLES
    input,         \* the items argument of TreeStore.__init__ (line 21)
    items,         \* self.items (line 22)
    itemId,        \* self.itemId: id -> item (lines 38, 43)
    keyOrder,      \* the keys of itemId in insertion order, as line 60 iterates
    parentChild,   \* self.parentChild: defaultdict, parent -> children (39, 44)
    idAllParents,  \* self.idAllParents: defaultdict, id -> ancestors (59, 64)
    pc,            \* position in __init__: "init", "createDicts", "forKey",
                   \* "while", then "ready" or "KeyError"
    keys,          \* the keys the for loop of line 60 has still to visit
    key,           \* _calculateParents: key
    ID,            \* _calculateParents: ID
    parent,        \* _calculateParents: parent
    call,          \* the last query called and its argument
    ret            \* its outcome: the value returned or the error raised

vars == <<input, items, itemId, keyOrder, parentChild, idAllParents,
          pc, keys, key, ID, parent, call, ret>>

index == <<itemId, parentChild, idAllParents>>
locals == <<keys, key, ID, parent>>

(***************************************************************************)
(* Data-model invariants of an input sequence.                             *)
(***************************************************************************)
IdsOf(its) == { its[i].id : i \in 1..Len(its) }

UniqueIds(its) == Cardinality(IdsOf(its)) = Len(its)

NoDangling(its) == { its[i].parent : i \in 1..Len(its) } \subseteq IdsOf(its) \cup {Root}

\* The ids reached from id x by following parent links n times.
RECURSIVE Up(_, _, _)
Up(its, x, n) ==
    IF n = 0 THEN {x}
    ELSE UNION { Up(its, its[i].parent, n - 1) :
                 i \in { j \in 1..Len(its) : its[j].id = x } }

HasCycle(its) ==
    \E i \in 1..Len(its) : \E n \in 1..Len(its) : its[i].id \in Up(its, its[i].id, n)

ValidInput(its) == UniqueIds(its) /\ NoDangling(its) /\ ~HasCycle(its)

Inputs == UNION { [1..n -> Items] : n \in 0..MaxLen }

(***************************************************************************)
(* collections.defaultdict(list)                                           *)
(***************************************************************************)
\* the value d[k] evaluates to
DDGet(d, k) == IF k \in DOMAIN d THEN d[k] ELSE <<>>

\* the dictionary after d[k] was evaluated
DDTouch(d, k) == IF k \in DOMAIN d THEN d ELSE d @@ (k :> <<>>)

\* variant: d[k].insert(0, x), the new item goes in front
DDPrepend(d, k, x) == [DDTouch(d, k) EXCEPT ![k] = <<x>> \o @]

\* d[k].append(x)
DDAppend(d, k, x) == [DDTouch(d, k) EXCEPT ![k] = Append(@, x)]

\* itemId[identification] = item
DictSet(d, k, x) == [j \in DOMAIN d \cup {k} |-> IF j = k THEN x ELSE d[j]]

\* insertion order of the keys of a dict after d[k] = ...
KeySet(order, k) ==
    IF \E i \in 1..Len(order) : order[i] = k THEN order ELSE Append(order, k)

(***************************************************************************)
(* TreeStore._createDictsForItems                                          *)
(***************************************************************************)
RECURSIVE createDictsLoop(_, _)
createDictsLoop(its, acc) ==
    IF its = <<>> THEN acc
    ELSE LET item == Head(its)
             identification == item.id
             par == item.parent
         IN createDictsLoop(Tail(its),
                [itemId |-> DictSet(acc.itemId, identification, item),
                 keyOrder |-> KeySet(acc.keyOrder, identification),
                 parentChild |-> DDAppend(acc.parentChild, par, item)])

createDictsForItems(its) ==
    createDictsLoop(its, [itemId |-> <<>>, keyOrder |-> <<>>, parentChild |-> <<>>])

(***************************************************************************)
(* Queries: the outcome and the dictionaries after the call.               *)
(***************************************************************************)
Return(v, pcd, iap) ==
    [kind |-> "return", val |-> v, parentChild |-> pcd, idAllParents |-> iap]

IdNotFoundError(i, pcd, iap) ==
    [kind |-> "IdNotFoundError", val |-> i, parentChild |-> pcd, idAllParents |-> iap]

\* variant: the list is returned sorted by id
getAllSorted ==
    Return(SortSeq(items, LAMBDA a, b : a.id < b.id), parentChild, idAllParents)

getAll == Return(items, parentChild, idAllParents)

\* variant: the record is rebuilt from id and parent, the extra field is lost
getItemBare(i) ==
    IF i \notin DOMAIN itemId
    THEN IdNotFoundError(i, parentChild, idAllParents)
    ELSE Return([itemId[i] EXCEPT !.type = "absent"], parentChild, idAllParents)

getItem(i) ==
    IF i \notin DOMAIN itemId
    THEN IdNotFoundError(i, parentChild, idAllParents)
    ELSE Return(itemId[i], parentChild, idAllParents)

\* variant: self.parentChild[ID] is evaluated before the membership test
getChildrenReadFirst(i) ==
    IF i \notin DOMAIN itemId
    THEN IdNotFoundError(i, DDTouch(parentChild, i), idAllParents)
    ELSE Return(DDGet(parentChild, i), DDTouch(parentChild, i), idAllParents)

getChildren(i) ==
    IF i \notin DOMAIN itemId
    THEN IdNotFoundError(i, parentChild, idAllParents)
    ELSE Return(DDGet(parentChild, i), DDTouch(parentChild, i), idAllParents)

\* variant: the membership test is made against the ancestors dictionary
getAllParentsByAncestors(i) ==
    IF i \notin DOMAIN idAllParents
    THEN IdNotFoundError(i, parentChild, idAllParents)
    ELSE Return(DDGet(idAllParents, i), parentChild, DDTouch(idAllParents, i))

getAllParents(i) ==
    IF i \notin DOMAIN itemId
    THEN IdNotFoundError(i, parentChild, idAllParents)
    ELSE Return(DDGet(idAllParents, i), parentChild, DDTouch(idAllParents, i))

(***************************************************************************)
(* State machine                                                           *)
(***************************************************************************)
InitWith(S) ==
    /\ input \in S
    /\ items = <<>>
    /\ itemId = <<>>
    /\ keyOrder = <<>>
    /\ parentChild = <<>>
    /\ idAllParents = <<>>
    /\ pc = "init"
    /\ keys = <<>>
    /\ key = Root
    /\ ID = Root
    /\ parent = Root
    /\ call = NoCall
    /\ ret = NoRet

Init == InitWith({ its \in Inputs : ValidInput(its) })

InitAny == InitWith(Inputs)

\* __init__, line 22
Construct ==
    /\ pc = "init"
    /\ items' = input
    /\ pc' = "createDicts"
    /\ UNCHANGED <<input, index, keyOrder, locals, call, ret>>

\* __init__, line 23
CreateDicts ==
    /\ pc = "createDicts"
    /\ LET r == createDictsForItems(items)
       IN /\ itemId' = r.itemId
          /\ keyOrder' = r.keyOrder
          /\ parentChild' = r.parentChild
    /\ pc' = "forKey"
    /\ keys' = keyOrder'
    /\ UNCHANGED <<input, items, idAllParents, key, ID, parent, call, ret>>

\* _calculateParents, lines 60-62: the next key of the for loop
WalkBegin ==
    /\ pc = "forKey"
    /\ keys # <<>>
    /\ key' = Head(keys)
    /\ keys' = Tail(keys)
    /\ ID' = key'
    /\ parent' = itemId[ID'].parent
    /\ pc' = "while"
    /\ UNCHANGED <<input, items, index, keyOrder, call, ret>>

\* variant: line 64 appends itemId[ID], the item the walk stands on
WalkStepSelf ==
    /\ pc = "while"
    /\ parent # Root
    /\ Len(DDGet(idAllParents, key)) < MaxChain
    /\ IF parent \in DOMAIN itemId
       THEN /\ idAllParents' = DDAppend(idAllParents, key, itemId[ID])
            /\ ID' = parent
            /\ parent' = itemId[ID'].parent
            /\ pc' = "while"
       ELSE /\ idAllParents' = DDTouch(idAllParents, key)
            /\ pc' = "KeyError"
            /\ UNCHANGED <<ID, parent>>
    /\ UNCHANGED <<input, items, itemId, keyOrder, parentChild, keys, key, call, ret>>

\* variant: line 63 tests ID != "root", so the walk looks the sentinel up
WalkStepPastRoot ==
    /\ pc = "while"
    /\ ID # Root
    /\ Len(DDGet(idAllParents, key)) < MaxChain
    /\ IF parent \in DOMAIN itemId
       THEN /\ idAllParents' = DDAppend(idAllParents, key, itemId[parent])
            /\ ID' = parent
            /\ parent' = itemId[ID'].parent
            /\ pc' = "while"
       ELSE /\ idAllParents' = DDTouch(idAllParents, key)
            /\ pc' = "KeyError"
            /\ UNCHANGED <<ID, parent>>
    /\ UNCHANGED <<input, items, itemId, keyOrder, parentChild, keys, key, call, ret>>

\* variant: line 66 reads itemId[key]["parent"], so the walk does not advance
WalkStepNoAdvance ==
    /\ pc = "while"
    /\ parent # Root
    /\ Len(DDGet(idAllParents, key)) < MaxChain
    /\ IF parent \in DOMAIN itemId
       THEN /\ idAllParents' = DDAppend(idAllParents, key, itemId[parent])
            /\ ID' = parent
            /\ parent' = itemId[key].parent
            /\ pc' = "while"
       ELSE /\ idAllParents' = DDTouch(idAllParents, key)
            /\ pc' = "KeyError"
            /\ UNCHANGED <<ID, parent>>
    /\ UNCHANGED <<input, items, itemId, keyOrder, parentChild, keys, key, call, ret>>

\* _calculateParents, lines 63-66: one iteration of the while loop
WalkStep ==
    /\ pc = "while"
    /\ parent # Root
    /\ Len(DDGet(idAllParents, key)) < MaxChain
    /\ IF parent \in DOMAIN itemId
       THEN /\ idAllParents' = DDAppend(idAllParents, key, itemId[parent])
            /\ ID' = parent
            /\ parent' = itemId[ID'].parent
            /\ pc' = "while"
       ELSE /\ idAllParents' = DDTouch(idAllParents, key)
            /\ pc' = "KeyError"
            /\ UNCHANGED <<ID, parent>>
    /\ UNCHANGED <<input, items, itemId, keyOrder, parentChild, keys, key, call, ret>>

\* variant: the while loop also ends when the walk comes back to its start
WalkEndOnRevisit ==
    /\ pc = "while"
    /\ (parent = Root \/ parent = key)
    /\ pc' = "forKey"
    /\ UNCHANGED <<input, items, index, keyOrder, keys, key, ID, parent, call, ret>>

\* _calculateParents, line 63: the while condition is false
WalkEnd ==
    /\ pc = "while"
    /\ parent = Root
    /\ pc' = "forKey"
    /\ UNCHANGED <<input, items, index, keyOrder, keys, key, ID, parent, call, ret>>

\* _calculateParents, line 67 and __init__, line 24
CalcReturn ==
    /\ pc = "forKey"
    /\ keys = <<>>
    /\ pc' = "ready"
    /\ key' = Root
    /\ ID' = Root
    /\ parent' = Root
    /\ UNCHANGED <<input, items, index, keyOrder, keys, call, ret>>

Query(op, arg, r) ==
    /\ call' = [op |-> op, arg |-> arg]
    /\ ret' = [kind |-> r.kind, val |-> r.val]
    /\ parentChild' = r.parentChild
    /\ idAllParents' = r.idAllParents
    /\ UNCHANGED <<input, items, itemId, keyOrder, pc, locals>>

GetAll == pc = "ready" /\ Query("getAll", Root, getAll)

GetItem == pc = "ready" /\ \E i \in QueryIds : Query("getItem", i, getItem(i))

GetChildren == pc = "ready" /\ \E i \in QueryIds : Query("getChildren", i, getChildren(i))

GetAllParents == pc = "ready" /\ \E i \in QueryIds : Query("getAllParents", i, getAllParents(i))

Next ==
    \/ Construct
    \/ CreateDicts
    \/ WalkBegin
    \/ WalkStep
    \/ WalkEnd
    \/ CalcReturn
    \/ GetAll
    \/ GetItem
    \/ GetChildren
    \/ GetAllParents

Spec == Init /\ [][Next]_vars

\* The constructor alone; it runs synchronously to its end.
NextBuild ==
    \/ Construct
    \/ CreateDicts
    \/ WalkBegin
    \/ WalkStep
    \/ WalkEnd
    \/ CalcReturn

FairBuild == Init /\ [][NextBuild]_vars /\ WF_vars(NextBuild)

SpecAny == InitAny /\ [][NextBuild]_vars

(***************************************************************************)
(* Properties                                                              *)
(***************************************************************************)
Returned(op) == pc = "ready" /\ call.op = op /\ ret.kind = "return"

Failed(op) == pc = "ready" /\ call.op = op /\ ret.kind = "IdNotFoundError"

IsItemId(x) == \E k \in 1..Len(input) : input[k].id = x

ItemOf(x) == input[CHOOSE k \in 1..Len(input) : input[k].id = x]

\* the items of the input whose parent is x, in input order
ChildrenInInput(x) ==
    LET Sel[n \in 0..Len(input)] ==
            IF n = 0 THEN <<>>
            ELSE IF input[n].parent = x THEN Append(Sel[n - 1], input[n])
                 ELSE Sel[n - 1]
    IN Sel[Len(input)]

\* C1: getChildren(X) of an item id X is exactly the subsequence of the input
\* made of the items whose parent is X, in input order (empty when there is
\* none).
C1_ChildrenAreInputSubsequence ==
    Returned("getChildren") => ret.val = ChildrenInInput(call.arg)

\* getChildren returned two or more children whose input order is not their id
\* order
C1_Witness ==
    /\ Returned("getChildren")
    /\ Len(ret.val) >= 2
    /\ ret.val[1].id > ret.val[2].id

\* C2: getAllParents(X) is empty for a root item X; otherwise it is the item
\* X.parent refers to, followed by getAllParents(X.parent): nearest ancestor
\* first, each element the parent of the one before, the last a root item.
C2_AncestorsNearestFirst ==
    Returned("getAllParents") =>
        LET x == ItemOf(call.arg)
            v == ret.val
        IN IF x.parent = Root
           THEN v = <<>>
           ELSE /\ v = <<ItemOf(x.parent)>> \o getAllParents(x.parent).val
                /\ v[1].id = x.parent
                /\ \A j \in 1..(Len(v) - 1) : v[j + 1].id = v[j].parent
                /\ v[Len(v)].parent = Root

\* getAllParents returned a chain of two ancestors
C2_Witness ==
    /\ Returned("getAllParents")
    /\ Len(ret.val) >= 2

\* C3: a query on an id that is no item id of the input fails with IdNotFound
\* (carrying that id, returning no value), also for the root sentinel, which
\* occurs as a parent value; a query on an item id does not fail.
C3_IdNotFoundIffUnknown ==
    (pc = "ready" /\ call.op \in {"getItem", "getChildren", "getAllParents"}) =>
        IF IsItemId(call.arg)
        THEN ret.kind = "return"
        ELSE ret.kind = "IdNotFoundError" /\ ret.val = call.arg

\* getAllParents failed on the root sentinel although the sentinel is a key of
\* the children dictionary
C3_Witness ==
    /\ Failed("getAllParents")
    /\ call.arg = Root
    /\ Root \in DOMAIN parentChild

\* C4: getItem(X) of an item id X returns exactly the record of the input
\* with that id, all fields unmodified.
C4_GetItemReturnsRecord ==
    Returned("getItem") =>
        \E k \in 1..Len(input) : input[k].id = call.arg /\ ret.val = input[k]

\* getItem returned an item that carries an extra field and is not the first
\* of the input
C4_Witness ==
    /\ Returned("getItem")
    /\ ret.val.type = "test"
    /\ input[1] # ret.val

\* C5: getAll never fails and returns the input sequence, element by element
\* and in order, also after other queries.
C5_GetAllReturnsInput ==
    (pc = "ready" /\ call.op = "getAll") => (ret.kind = "return" /\ ret.val = input)

\* getAll returned an input that is not sorted by id, after a getChildren call
\* on a childless item
C5_Witness ==
    /\ Returned("getAll")
    /\ Len(ret.val) >= 2
    /\ ret.val[1].id > ret.val[2].id
    /\ \E k \in DOMAIN parentChild : parentChild[k] = <<>>

\* C6: queries never mutate the index: in the ready state the three
\* dictionaries, key sets included, stay as the constructor built them.
C6_QueriesNeverMutate ==
    [][pc = "ready" => index' = index]_vars

\* C7 as stated: the constructor never ends in an error, whatever the input.
C7_NoErrorForAnyInput == pc # "KeyError"

\* C7 as amended: the constructor ends in no error when every parent of the
\* input is the sentinel or the id of an item of the input, duplicate ids and
\* cycles included; it ends in a KeyError only on looking up a parent that is
\* neither.
C7_NoErrorUnlessDangling ==
    /\ NoDangling(input) => pc # "KeyError"
    /\ pc = "KeyError" => (parent # Root /\ ~IsItemId(parent))

\* the constructor finished on an input with a duplicate id
C7_Witness ==
    /\ pc = "ready"
    /\ NoDangling(input)
    /\ ~UniqueIds(input)

\* C8: on an input satisfying the data-model invariants the constructor runs
\* to completion: no walk collects more than n - 1 ancestors, none fails, and
\* the index becomes ready.
C8_ConstructionCompletes ==
    /\ [](pc # "KeyError")
    /\ [](\A k \in DOMAIN idAllParents : Len(idAllParents[k]) + 1 <= Len(input))
    /\ <>(pc = "ready")

\* the constructor finished and a walk collected n - 1 >= 2 ancestors
C8_Witness ==
    /\ pc = "ready"
    /\ \E k \in DOMAIN idAllParents :
           Len(idAllParents[k]) >= 2 /\ Len(idAllParents[k]) + 1 = Len(input)

CyclicOnly(its) == UniqueIds(its) /\ NoDangling(its) /\ HasCycle(its)

WalkOverran == \E k \in DOMAIN idAllParents : Len(idAllParents[k]) = MaxChain

\* C9 as stated: when the parent relation of the input has a cycle the
\* constructor never becomes ready and never raises an error.
C9_CycleNeverEnds ==
    HasCycle(input) => (pc # "ready" /\ pc # "KeyError")

\* an iteration of the while loop that makes the ancestor list of the walked
\* id one item longer and stays in the loop
WalkGrows ==
    /\ WalkStep
    /\ pc' = "while"
    /\ Len(DDGet(idAllParents', key)) = Len(DDGet(idAllParents, key)) + 1

\* C9 as amended: when the parent relation of an input with unique ids and no
\* dangling parent has a cycle, the constructor never becomes ready and never
\* raises an error; whenever its walk stands on a parent other than the
\* sentinel the next iteration of the while loop can run and makes the
\* ancestor list of the walked id one item longer, so that the list outgrows
\* the length any ending walk can reach.
C9_CycleNeverEndsWhenOtherwiseValid ==
    CyclicOnly(input) =>
        /\ pc # "ready" /\ pc # "KeyError"
        /\ (pc = "while" /\ parent # Root /\ ~WalkOverran) => ENABLED WalkGrows

\* a walk in a cycle of two items has collected more ancestors than the input
\* has items, after an earlier walk ended at the root
C9_Witness ==
    /\ CyclicOnly(input)
    /\ pc = "while"
    /\ Len(DDGet(idAllParents, key)) > Len(input)
    /\ key # parent
    /\ Len(keys) + 1 < Len(keyOrder)

\* C10: a query that fails with IdNotFound leaves the three dictionaries as
\* they were, key sets included.
C10_FailedQueryLeavesIndex ==
    [][(pc = "ready" /\ ret'.kind = "IdNotFoundError") => index' = index]_vars

\* getChildren failed on an id that is a key of the children dictionary only
C10_Witness ==
    /\ Failed("getChildren")
    /\ call.arg \in DOMAIN parentChild

====
